---------------------------- MODULE Spec2Model ----------------------------
(***************************************************************************)
(* Model of the beat-detection / chart-generation pass                     *)
(* (utils/audioAnalyzer.ts, here src/unnamed/part_006) and of the          *)
(* application state that starts analyses and stores their charts          *)
(* (src/App.tsx), of two invocations of the pass whose awaits interleave,  *)
(* and of the game that plays a chart: the handlers of App (startGame,     *)
(* restartGame, handleNoteHit, handleNoteMiss, endGame) and the frame      *)
(* loop of GameScene (src/unnamed/part_003).                               *)
(*                                                                         *)
(* World lengths of the game are in thousandths (MISS_Z = 5 is 5000), so   *)
(* currentZ = (time - note.time) * NOTE_SPEED with times in milliseconds   *)
(* is exact.                                                               *)
(*                                                                         *)
(* Numbers.  The code works on IEEE doubles; the model works on integers:  *)
(*   - sample amplitudes, rms, spectrum bins and flux are in thousandths   *)
(*     (0.06 is 60);  Math.sqrt is the integer square root;                *)
(*   - times are in milliseconds (0.12 s is 120, 1.8 s is 1800); the       *)
(*     sample rates of Inputs make hopSize / sampleRate a whole            *)
(*     number of milliseconds, so  i / sampleRate  is exact;               *)
(*   - a mean  sum / length  is never rounded: a comparison with a mean is *)
(*     cross-multiplied, and intensity = rms / avgEnergy is kept as the    *)
(*     fraction num / den.                                                 *)
(*                                                                         *)
(* Sample buffers.  A buffer is a sequence of blocks of hopSize equal      *)
(* samples (data.blocks, one amplitude per block) followed by data.tail    *)
(* further samples.  The frame loop starts every frame on a block          *)
(* boundary, so a frame is windowSize \div hopSize whole blocks.           *)
(***************************************************************************)
EXTENDS Integers, Sequences, FiniteSets, TLC

VARIABLES
    \* ---- one invocation of analyzeAudioAndGenerateChart ----
    pc,             \* position of the invocation
    outcome,        \* state of the returned promise
    result,         \* value the promise resolved to
    logged,         \* what console.error was called with
    data,           \* audio.getChannelData(0)
    sampleRate,     \* audio.sampleRate
    i,              \* loop variable
    energyHistory,
    fluxHistory,
    lastNoteTime,
    lastHand,
    id,
    notes,
    prevSpectrum,
    streamIds,      \* ids of the notes emitted through the isStream branch
    run,            \* number of the invocation (1, 2, ...)
    firstRun,       \* what invocation 1 decoded and returned
    \* ---- App ----
    gameStatus,
    analyzing,
    currentChart,
    songUrl,
    isCustomSong,
    pending,        \* analyses awaited by initAudio / handleFileUpload
    requested,      \* number of analyses started so far
    settled,        \* request number -> what its promise settled to
    superseded,     \* requests that were pending when a later one started
    isCameraReady,
    score,
    combo,
    multiplier,
    health,
    audioRef,       \* audioRef.current: currentTime, paused, ended
    playsPending,   \* audio.play() promises startGame is waiting for
    playsAborted,   \* those of them that a load() has doomed to reject
    endGameTimers,  \* setTimeout(() => endGame(false), 0) not yet run
    \* ---- GameScene ----
    activeNotes,    \* activeNotesRef.current, as positions in the chart
    nextNoteIndex,  \* nextNoteIndexRef.current
    currentTime,
    \* ---- invocations of analyzeAudioAndGenerateChart in flight together ----
    calls,          \* call site -> position, audio, locals and promise
    running         \* the call whose synchronous code is executing, or "none"

passVars == <<pc, outcome, result, logged, data, sampleRate, i, energyHistory,
              fluxHistory, lastNoteTime, lastHand, id, notes, prevSpectrum,
              streamIds, run, firstRun>>
scoreVars == <<score, combo, multiplier, health>>
sceneVars == <<activeNotes, nextNoteIndex, currentTime>>
gameVars == <<isCameraReady, scoreVars, audioRef, playsPending, playsAborted,
              endGameTimers, sceneVars>>
appVars == <<gameStatus, analyzing, currentChart, songUrl, isCustomSong,
             pending, requested, settled, superseded, gameVars>>
pairVars == <<calls, running>>
vars == <<passVars, appVars, pairVars>>

----------------------------------------------------------------------------
(* Program constants *)

MIN_NOTE_GAP == 120
windowSize == 2048
hopSize == 512
historySize == 50

\* a URL is the resource it names and, for an object URL, the number that
\* makes URL.createObjectURL's result unique
SONG_URL == [blob |-> 0, file |-> "/music/song.mp3"]

\* constants.ts, lengths in thousandths
SPAWN_Z == -30000
PLAYER_Z == 0
MISS_Z == 5000
NOTE_SPEED == 12
LANE_X_POSITIONS == <<-1200, -400, 400, 1200>>
LAYER_Y_POSITIONS == <<800, 1600, 2400>>

(* Bounds of the model *)

MaxFree == 5
MaxRuns == 2
MaxUploads == 1
MaxPlayRequests == 1

\* amplitudes of the free blocks: quiet (0.03), medium, loud; and of the
\* lead: silence, quiet, and a tone 0.005 below the medium amplitude
Amps == {30, 550, -900}
LeadAmps == {0, 30, 545}

\* the files a user may upload
Files == {"a.mp3", "b.ogg"}

\* milliseconds of playback between two rendered frames
FrameGaps == {512}

\* what the hand tracker may report: no hands, both hands low on the inner
\* lanes, both hands at mid height on the outer lanes (null is <<>>)
HandPoses ==
    {[left |-> <<>>, right |-> <<>>],
     [left |-> <<-400, 800, 0>>, right |-> <<400, 800, 0>>],
     [left |-> <<-1200, 1600, 0>>, right |-> <<1200, 1600, 0>>]}

----------------------------------------------------------------------------
(* Arithmetic helpers *)

Abs(x) == IF x < 0 THEN -x ELSE x

RECURSIVE SqrtIter(_, _, _)
SqrtIter(x, lo, hi) ==
    IF lo = hi THEN lo
    ELSE LET mid == (lo + hi + 1) \div 2
         IN  IF mid * mid <= x THEN SqrtIter(x, mid, hi)
                               ELSE SqrtIter(x, lo, mid - 1)

Sqrt(x) == SqrtIter(x, 0, 46340)

RECURSIVE Sum(_)
Sum(s) == IF s = <<>> THEN 0 ELSE Head(s) + Sum(Tail(s))

\* q > n / d  for a quotient q = num / den of non-negative numbers, with the
\* IEEE results of a division by zero: x / 0 is Infinity for x > 0, 0 / 0 is NaN
QuotientGT(q, n, d) ==
    IF q.den = 0 THEN q.num > 0 ELSE q.num * d > q.den * n

----------------------------------------------------------------------------
(* Sample buffers *)

DataLength(d) == Len(d.blocks) * hopSize + d.tail

\* data.slice(i, i + windowSize), i a multiple of hopSize: the blocks it covers
Frame(d, at) ==
    [k \in 1..(windowSize \div hopSize) |-> d.blocks[(at \div hopSize) + k]]

\* frame[n] || 0
FrameSample(frame, n) ==
    IF (n \div hopSize) + 1 \in DOMAIN frame
    THEN frame[(n \div hopSize) + 1] ELSE 0

SeqsUpTo(S, n) == UNION {[1..k -> S] : k \in 0..n}

Blocks(n, a) == [k \in 1..n |-> a]

\* Short recordings: up to MaxFree blocks of any amplitude and 0 or 1
\* further samples, at 8000 Hz (a frame every 64 ms).
ShortInputs ==
    {[data |-> [blocks |-> free, tail |-> t], sampleRate |-> 8000] :
        free \in SeqsUpTo(Amps, MaxFree), t \in {0, 1}}

\* Recordings that reach past the 1.8 s lead-in: a lead of equal blocks, up
\* to MaxFree blocks of any amplitude, and four closing blocks like the
\* lead; at 8000 Hz with a lead that ends at 1.792 s, and at 4000 Hz (a
\* frame every 128 ms) with a lead that ends at 1.92 s.
LongInputs ==
    {[data |-> [blocks |-> Blocks(r[1], a) \o free \o Blocks(4, a),
                tail |-> 0],
      sampleRate |-> r[2]] :
        r \in {<<28, 8000>>, <<15, 4000>>}, a \in LeadAmps,
        free \in SeqsUpTo(Amps, MaxFree)}

\* Recordings that fill the rolling window: at 16000 Hz (a frame every
\* 32 ms) a lead of 56 equal blocks, which ends at 1.792 s, one of a few
\* continuations and four closing blocks like the lead: 57 to 59 frames.
WindowInputs ==
    {[data |-> [blocks |-> Blocks(56, a) \o free \o Blocks(4, a), tail |-> 0],
      sampleRate |-> 16000] :
        a \in LeadAmps,
        free \in {<<-900>>, <<550, -900>>, <<-900, 30, -900>>}}

\* what decodeAudioData may deliver
Inputs == ShortInputs \cup LongInputs \cup WindowInputs

----------------------------------------------------------------------------
(* Frame Analyzer *)

\* Math.sqrt(frame.reduce((s, v) => s + v * v, 0) / frame.length)
Rms(frame) ==
    Sqrt((hopSize * Sum([k \in DOMAIN frame |-> frame[k] * frame[k]]))
            \div windowSize)

\* spectrum[j] = Math.abs(frame[j * 4] || 0), j = 0..39
Spectrum(frame) == [j \in 1..40 |-> Abs(FrameSample(frame, (j - 1) * 4))]

\* half-wave rectified difference to the previous spectrum; 0 without one
Flux(spectrum, prev) ==
    IF prev = <<>> THEN 0
    ELSE Sum([j \in DOMAIN spectrum |->
                IF spectrum[j] - prev[j] > 0 THEN spectrum[j] - prev[j] ELSE 0])

PushHistoryNoShift(history, v) == Append(history, v)

\* history.push(v); if (history.length > historySize) history.shift()
PushHistory(history, v) ==
    IF Len(history) + 1 > historySize THEN Tail(Append(history, v))
                                      ELSE Append(history, v)

\* i / sampleRate, in milliseconds
TimeOf(at, sr) == (at * 1000) \div sr

----------------------------------------------------------------------------
(* Adaptive Beat Detector *)

RmsGateOff(rms) == FALSE

\* if (rms < 0.06) continue
RmsGateRejects(rms) == rms < 60

FluxGateOff(rms, flux) == FALSE

\* if (flux < rms * 0.6) continue
FluxGateRejects(rms, flux) == flux * 10 < rms * 6

IsBeatNoGap(rms, flux, eh, fh, time, last) ==
    /\ rms * Len(eh) * 100 > Sum(eh) * 115
    /\ flux * Len(fh) * 10 > Sum(fh) * 22

IsBeatNoEnergy(rms, flux, eh, fh, time, last) ==
    /\ flux * Len(fh) * 10 > Sum(fh) * 22
    /\ time - last > MIN_NOTE_GAP

\* rms > avgEnergy * 1.15 && flux > avgFlux * 2.2 &&
\* time - lastNoteTime > MIN_NOTE_GAP, the averages being sum / length
IsBeat(rms, flux, eh, fh, time, last) ==
    /\ rms * Len(eh) * 100 > Sum(eh) * 115
    /\ flux * Len(fh) * 10 > Sum(fh) * 22
    /\ time - last > MIN_NOTE_GAP

IntensityOverOldest(rms, eh) == [num |-> rms, den |-> eh[1]]

\* rms / avgEnergy
Intensity(rms, eh) == [num |-> rms * Len(eh), den |-> Sum(eh)]

----------------------------------------------------------------------------
(* Chart Generator *)

IsStreamWide(time, last) == time - last < 260

\* isStream = time - lastNoteTime < 0.22
IsStream(time, last) == time - last < 220

Opposite(hand) == IF hand = "left" THEN "right" ELSE "left"

IsolatedHandNoFlip(intensity, last) ==
    IF QuotientGT(intensity, 14, 10) THEN "right" ELSE "left"

\* type = intensity > 1.4 ? "right" : "left"; flipped when it equals lastHand
IsolatedHand(intensity, last) ==
    LET type == IF QuotientGT(intensity, 14, 10) THEN "right" ELSE "left"
    IN  IF type = last THEN Opposite(type) ELSE type

InnerLaneMirrored(type) == IF type = "left" THEN 2 ELSE 1

\* lineIndex = type === "left" ? 1 : 2
InnerLane(type) == IF type = "left" THEN 1 ELSE 2

OuterLaneOffByOne(type) == IF type = "left" THEN 0 ELSE 4

\* lineIndex = type === "left" ? 0 : 3
OuterLane(type) == IF type = "left" THEN 0 ELSE 3

PlacementTiersSwapped(intensity, isStream, last) ==
    IF isStream
    THEN LET type == Opposite(last)
         IN  [type |-> type, direction |-> "DOWN",
              lineIndex |-> InnerLane(type), lineLayer |-> 0]
    ELSE LET type == IsolatedHand(intensity, last)
         IN  IF QuotientGT(intensity, 20, 10)
             THEN [type |-> type, direction |-> "DOWN",
                   lineIndex |-> InnerLane(type), lineLayer |-> 0]
             ELSE IF QuotientGT(intensity, 13, 10)
             THEN [type |-> type, direction |-> "ANY",
                   lineIndex |-> OuterLane(type), lineLayer |-> 1]
             ELSE [type |-> type, direction |-> "UP",
                   lineIndex |-> InnerLane(type), lineLayer |-> 0]

\* the if (isStream) ... else ... that chooses type, direction, lineIndex
\* and lineLayer (lineLayer starts at 0, lineIndex at 1)
Placement(intensity, isStream, last) ==
    IF isStream
    THEN LET type == Opposite(last)
         IN  [type |-> type, direction |-> "DOWN",
              lineIndex |-> InnerLane(type), lineLayer |-> 0]
    ELSE LET type == IsolatedHand(intensity, last)
         IN  IF QuotientGT(intensity, 20, 10)
             THEN [type |-> type, direction |-> "DOWN",
                   lineIndex |-> InnerLane(type), lineLayer |-> 0]
             ELSE IF QuotientGT(intensity, 13, 10)
             THEN [type |-> type, direction |-> "UP",
                   lineIndex |-> InnerLane(type), lineLayer |-> 0]
             ELSE [type |-> type, direction |-> "ANY",
                   lineIndex |-> OuterLane(type), lineLayer |-> 1]

\* `note-${id}`
NoteId(n) == <<"note-", n>>

PushFront(list, note) == <<note>> \o list

PushAfterLeadIn(list, note) ==
    IF note.time > 1800 THEN Append(list, note) ELSE list

\* notes.push(note)
Push(list, note) == Append(list, note)

NewNoteAlreadyHit(n, time, place) ==
    [id |-> NoteId(n), time |-> time, lineIndex |-> place.lineIndex,
     lineLayer |-> place.lineLayer, type |-> place.type,
     cutDirection |-> place.direction, hit |-> TRUE]

\* the object literal of notes.push({...}): six properties, and no hit,
\* missed or hitTime
NewNote(n, time, place) ==
    [id |-> NoteId(n), time |-> time, lineIndex |-> place.lineIndex,
     lineLayer |-> place.lineLayer, type |-> place.type,
     cutDirection |-> place.direction]

NextIdStuck(n) == n

\* the id++ of `note-${id++}`
NextId(n) == n + 1

LastEmittedKeepsHand(st, note) == [time |-> note.time, hand |-> st.lastHand]

\* lastNoteTime = time; lastHand = type
LastEmitted(st, note) == [time |-> note.time, hand |-> note.type]

NoLeadInFilter(list) == list

\* notes.filter((n) => n.time > 1.8)
LeadInFilter(list) == SelectSeq(list, LAMBDA n : n.time > 1800)

----------------------------------------------------------------------------
(* analyzeAudioAndGenerateChart: the locals of the loop *)

LoopLocals ==
    [i |-> i, energyHistory |-> energyHistory, fluxHistory |-> fluxHistory,
     lastNoteTime |-> lastNoteTime, lastHand |-> lastHand, id |-> id,
     notes |-> notes, prevSpectrum |-> prevSpectrum, streamIds |-> streamIds]

LoopInitStaleId ==
    [i |-> 0, energyHistory |-> <<>>, fluxHistory |-> <<>>,
     lastNoteTime |-> 0, lastHand |-> "right", id |-> id,
     notes |-> <<>>, prevSpectrum |-> <<>>, streamIds |-> {}]

LoopInitLastLeft ==
    [i |-> 0, energyHistory |-> <<>>, fluxHistory |-> <<>>,
     lastNoteTime |-> 0, lastHand |-> "left", id |-> 0,
     notes |-> <<>>, prevSpectrum |-> <<>>, streamIds |-> {}]

\* the declarations before the loop, and let i = 0
LoopInit ==
    [i |-> 0, energyHistory |-> <<>>, fluxHistory |-> <<>>,
     lastNoteTime |-> 0, lastHand |-> "right", id |-> 0,
     notes |-> <<>>, prevSpectrum |-> <<>>, streamIds |-> {}]

LoopConditionInclusive(at, d) == at <= DataLength(d) - windowSize

\* i < data.length - windowSize
LoopCondition(at, d) == at < DataLength(d) - windowSize

\* one iteration of the for loop, the i += hopSize included
LoopBody(st, d, sr) ==
    LET frame    == Frame(d, st.i)
        rms      == Rms(frame)
        spectrum == Spectrum(frame)
        flux     == Flux(spectrum, st.prevSpectrum)
        eh       == PushHistory(st.energyHistory, rms)
        fh       == PushHistory(st.fluxHistory, flux)
        time     == TimeOf(st.i, sr)
        skipped  == [st EXCEPT !.i = st.i + hopSize,
                               !.prevSpectrum = spectrum,
                               !.energyHistory = eh,
                               !.fluxHistory = fh]
    IN  IF RmsGateRejects(rms) THEN skipped
        ELSE IF FluxGateRejects(rms, flux) THEN skipped
        ELSE IF ~IsBeat(rms, flux, eh, fh, time, st.lastNoteTime) THEN skipped
        ELSE
          LET intensity == Intensity(rms, eh)
              isStream  == IsStream(time, st.lastNoteTime)
              place     == Placement(intensity, isStream, st.lastHand)
              note      == NewNote(st.id, time, place)
          IN  [skipped EXCEPT !.notes = Push(st.notes, note),
                              !.id = NextId(st.id),
                              !.lastNoteTime = LastEmitted(st, note).time,
                              !.lastHand = LastEmitted(st, note).hand,
                              !.streamIds = IF isStream
                                            THEN st.streamIds \cup {NoteId(st.id)}
                                            ELSE st.streamIds]

CaughtRethrows(e) == [outcome |-> "rejected", value |-> <<>>, logged |-> e]

\* catch (e) { console.error(e); return []; }
Caught(e) == [outcome |-> "resolved", value |-> <<>>, logged |-> e]

SetLocals(st) ==
    /\ i' = st.i
    /\ energyHistory' = st.energyHistory
    /\ fluxHistory' = st.fluxHistory
    /\ lastNoteTime' = st.lastNoteTime
    /\ lastHand' = st.lastHand
    /\ id' = st.id
    /\ notes' = st.notes
    /\ prevSpectrum' = st.prevSpectrum
    /\ streamIds' = st.streamIds

localVars == <<i, energyHistory, fluxHistory, lastNoteTime, lastHand, id,
               notes, prevSpectrum, streamIds>>

Throw(e) ==
    /\ pc' = "returned"
    /\ outcome' = Caught(e).outcome
    /\ result' = Caught(e).value
    /\ logged' = Caught(e).logged
    /\ UNCHANGED <<data, sampleRate, localVars, run, firstRun, appVars, pairVars>>

\* const res = await fetch(audioUrl)
FetchOk ==
    /\ pc = "fetch"
    /\ pc' = "arrayBuffer"
    /\ UNCHANGED <<outcome, result, logged, data, sampleRate, localVars, run,
                   firstRun, appVars, pairVars>>

FetchFails ==
    /\ pc = "fetch"
    /\ Throw("fetch")

\* const buffer = await res.arrayBuffer()
ArrayBufferOk ==
    /\ pc = "arrayBuffer"
    /\ pc' = "decodeAudioData"
    /\ UNCHANGED <<outcome, result, logged, data, sampleRate, localVars, run,
                   firstRun, appVars, pairVars>>

ArrayBufferFails ==
    /\ pc = "arrayBuffer"
    /\ Throw("arrayBuffer")

\* const audio = await ctx.decodeAudioData(buffer), up to the loop's let i = 0.
\* A second invocation is given the resource of the first one.
DecodeOk ==
    /\ pc = "decodeAudioData"
    /\ \E audio \in Inputs :
         /\ run > 1 => (audio.data = firstRun.data
                        /\ audio.sampleRate = firstRun.sampleRate)
         /\ data' = audio.data
         /\ sampleRate' = audio.sampleRate
    /\ SetLocals(LoopInit)
    /\ pc' = "loop"
    /\ UNCHANGED <<outcome, result, logged, run, firstRun, appVars, pairVars>>

DecodeFails ==
    /\ pc = "decodeAudioData"
    /\ Throw("decodeAudioData")

LoopIteration ==
    /\ pc = "loop"
    /\ LoopCondition(i, data)
    /\ SetLocals(LoopBody(LoopLocals, data, sampleRate))
    /\ UNCHANGED <<pc, outcome, result, logged, data, sampleRate, run,
                   firstRun, appVars, pairVars>>

\* return notes.filter((n) => n.time > 1.8)
Return ==
    /\ pc = "loop"
    /\ ~LoopCondition(i, data)
    /\ pc' = "returned"
    /\ outcome' = "resolved"
    /\ result' = LeadInFilter(notes)
    /\ UNCHANGED <<logged, data, sampleRate, localVars, run, firstRun, appVars, pairVars>>

\* analyzeAudioAndGenerateChart is called again, for the resource whose
\* analysis has just returned
Invoke ==
    /\ pc = "returned"
    /\ logged = "none"
    /\ run < MaxRuns
    /\ run' = run + 1
    /\ firstRun' = IF run = 1
                   THEN [data |-> data, sampleRate |-> sampleRate,
                         result |-> result]
                   ELSE firstRun
    /\ pc' = "fetch"
    /\ outcome' = "pending"
    /\ result' = <<>>
    /\ UNCHANGED <<logged, data, sampleRate, localVars, appVars, pairVars>>

NoAudio == [blocks |-> <<>>, tail |-> 0]

PassInit ==
    /\ pc = "fetch"
    /\ outcome = "pending"
    /\ result = <<>>
    /\ logged = "none"
    /\ data = NoAudio
    /\ sampleRate = 0
    /\ i = 0
    /\ energyHistory = <<>>
    /\ fluxHistory = <<>>
    /\ lastNoteTime = 0
    /\ lastHand = "right"
    /\ id = 0
    /\ notes = <<>>
    /\ prevSpectrum = <<>>
    /\ streamIds = {}
    /\ run = 1
    /\ firstRun = [data |-> NoAudio, sampleRate |-> 0, result |-> <<>>]

AppInit ==
    /\ gameStatus = "LOADING"
    /\ analyzing = FALSE
    /\ currentChart = <<>>
    /\ songUrl = SONG_URL
    /\ isCustomSong = FALSE
    /\ pending = {}
    /\ requested = 0
    /\ settled = <<>>
    /\ superseded = {}
    /\ isCameraReady = FALSE
    /\ score = 0
    /\ combo = 0
    /\ multiplier = 1
    /\ health = 1000
    /\ audioRef = [currentTime |-> 0, paused |-> TRUE, ended |-> FALSE]
    /\ playsPending = 0
    /\ playsAborted = 0
    /\ endGameTimers = 0
    /\ activeNotes = <<>>
    /\ nextNoteIndex = 0
    /\ currentTime = 0

\* no call of either call site has been made
PairInit ==
    /\ calls = [c \in {"initAudio", "handleFileUpload"} |->
                  [pc |-> "idle", audio |-> [data |-> NoAudio, sampleRate |-> 0],
                   locals |-> LoopInit, outcome |-> "none", result |-> <<>>,
                   logged |-> "none", overlapped |-> FALSE]]
    /\ running = "none"

Init == PassInit /\ AppInit /\ PairInit

Next ==
    \/ FetchOk
    \/ FetchFails
    \/ ArrayBufferOk
    \/ ArrayBufferFails
    \/ DecodeOk
    \/ DecodeFails
    \/ LoopIteration
    \/ Return
    \/ Invoke

Spec == Init /\ [][Next]_vars

\* the for statement as a step: while its condition holds, i moves on by a
\* hop; within Next these are the steps of LoopIteration
LoopAdvance ==
    /\ pc = "loop"
    /\ LoopCondition(i, data)
    /\ i' = i + hopSize

\* the loop and the return statement run as soon as they can: the code
\* between two awaits runs to completion
FairSpec == Spec /\ WF_i(LoopAdvance) /\ WF_vars(Return)

----------------------------------------------------------------------------
(* The whole pass as a function of the decoded audio *)

RECURSIVE RunLoop(_, _, _)
RunLoop(st, d, sr) ==
    IF LoopCondition(st.i, d) THEN RunLoop(LoopBody(st, d, sr), d, sr)
                              ELSE st

\* what the promise of analyzeAudioAndGenerateChart resolves to when fetch
\* and decode succeed
Analysed(audio) ==
    [outcome |-> "resolved",
     value   |-> LeadInFilter(RunLoop(LoopInit, audio.data,
                                      audio.sampleRate).notes),
     logged  |-> "none"]

----------------------------------------------------------------------------
(* App *)

\* n times four loud blocks and two quiet ones
RECURSIVE Beats(_)
Beats(n) ==
    IF n = 0 THEN <<>>
    ELSE <<-900, -900, -900, -900, 30, 30>> \o Beats(n - 1)

\* the recording behind each resource the application analyses
AudioOf(resource) ==
    IF resource = "/music/song.mp3"
    THEN [data |-> [blocks |-> Blocks(15, 0) \o <<30, -900>> \o Blocks(4, 0),
                    tail |-> 0],
          sampleRate |-> 4000]
    ELSE IF resource = "a.mp3"
    THEN [data |-> [blocks |-> Blocks(28, 0) \o <<30, 550, 30, -900>>
                                  \o Blocks(4, 0),
                    tail |-> 0],
          sampleRate |-> 8000]
    ELSE [data |-> [blocks |-> Blocks(29, 30) \o Beats(7) \o Blocks(4, 30),
                    tail |-> 0],
          sampleRate |-> 8000]

\* the pass on each resource, computed once
AnalysedResource ==
    [f \in {SONG_URL.file} \cup Files |-> Analysed(AudioOf(f))]

\* what an analysis of the URL may settle to: its chart, or the
\* catch block's value after a failure of fetch, arrayBuffer or decode
Settlements(url) ==
    {AnalysedResource[url.file]}
        \cup {Caught(e) : e \in {"fetch", "arrayBuffer", "decodeAudioData"}}

Record(req, s) ==
    [r \in DOMAIN settled \cup {req} |-> IF r = req THEN s ELSE settled[r]]

AfterAnalysisStuckOnEmpty(chart) ==
    [currentChart |-> chart, analyzing |-> FALSE,
     gameStatus |-> IF chart = <<>> THEN gameStatus ELSE "IDLE"]

\* setCurrentChart(notes); setAnalyzing(false); setGameStatus(IDLE)
AfterAnalysis(chart) ==
    [currentChart |-> chart, analyzing |-> FALSE, gameStatus |-> "IDLE"]

ChartEffectKeepsIndex ==
    [activeNotes |-> <<>>, nextNoteIndex |-> nextNoteIndex]

\* GameScene's effect on [chart], which also runs when GameScene is mounted:
\* activeNotesRef.current = []; nextNoteIndexRef.current = 0
\* (setNotesState(chart) makes notesState the chart of the application)
ChartEffect == [activeNotes |-> <<>>, nextNoteIndex |-> 0]

\* GameScene is rendered only while gameStatus is not LOADING; its refs and
\* state are gone when it is unmounted and start from useRef([]), useRef(0),
\* useState(0) when it is mounted again
Unmounted == [activeNotes |-> <<>>, nextNoteIndex |-> 0, currentTime |-> 0]

\* the effect on [songUrl]: audio.src = songUrl; audio.load() resets the
\* element and rejects the play() promises that are pending
Loaded == [currentTime |-> 0, paused |-> TRUE, ended |-> FALSE]

\* the statements after  await analyzeAudioAndGenerateChart(...) ; a rejected
\* promise would throw there and end the function
Resume(p, s) ==
    /\ pending' = pending \ {p}
    /\ settled' = Record(p.req, s)
    /\ IF s.outcome = "resolved"
       THEN /\ currentChart' = AfterAnalysis(s.value).currentChart
            /\ analyzing' = AfterAnalysis(s.value).analyzing
            /\ gameStatus' = AfterAnalysis(s.value).gameStatus
            /\ activeNotes' = ChartEffect.activeNotes
            /\ nextNoteIndex' = ChartEffect.nextNoteIndex
            /\ currentTime' = IF gameStatus = "LOADING" THEN 0 ELSE currentTime
       ELSE UNCHANGED <<currentChart, analyzing, gameStatus, sceneVars>>
    /\ UNCHANGED <<songUrl, isCustomSong, requested, superseded, isCameraReady,
                   scoreVars, audioRef, playsPending, playsAborted,
                   endGameTimers,
                   passVars, pairVars>>

\* the mount effect: initAudio up to its await
initAudio ==
    /\ requested = 0
    /\ analyzing' = TRUE
    /\ requested' = 1
    /\ pending' = pending \cup {[req |-> 1, url |-> SONG_URL,
                                 by |-> "initAudio"]}
    /\ superseded' = superseded
    /\ UNCHANGED <<gameStatus, currentChart, songUrl, isCustomSong, settled,
                   gameVars, passVars, pairVars>>

initAudioResumes ==
    \E p \in pending :
        /\ p.by = "initAudio"
        /\ \E s \in Settlements(p.url) : Resume(p, s)

\* handleFileUpload up to its await; the change event of the file input
\* carries the chosen file
handleFileUpload ==
    /\ requested >= 1
    /\ requested < 1 + MaxUploads
    /\ \E file \in Files :
        LET objectUrl == [blob |-> requested + 1, file |-> file]
        IN  /\ songUrl' = objectUrl
            /\ pending' = pending \cup {[req |-> requested + 1,
                                         url |-> objectUrl,
                                         by |-> "handleFileUpload"]}
    /\ isCustomSong' = TRUE
    /\ analyzing' = TRUE
    /\ gameStatus' = "LOADING"
    /\ requested' = requested + 1
    /\ superseded' = superseded \cup {p.req : p \in pending}
    /\ audioRef' = Loaded
    /\ playsPending' = 0
    /\ playsAborted' = playsAborted + playsPending
    /\ activeNotes' = Unmounted.activeNotes
    /\ nextNoteIndex' = Unmounted.nextNoteIndex
    /\ currentTime' = Unmounted.currentTime
    /\ UNCHANGED <<currentChart, settled, isCameraReady, scoreVars,
                   endGameTimers, passVars, pairVars>>

handleFileUploadResumes ==
    \E p \in pending :
        /\ p.by = "handleFileUpload"
        /\ \E s \in Settlements(p.url) : Resume(p, s)

NextApp ==
    \/ initAudio
    \/ initAudioResumes
    \/ handleFileUpload
    \/ handleFileUploadResumes

SpecApp == Init /\ [][NextApp]_vars

\* a pending promise settles: fetch and decodeAudioData either deliver or
\* fail, and the continuation then runs
FairSpecApp ==
    SpecApp /\ WF_vars(initAudioResumes) /\ WF_vars(handleFileUploadResumes)

----------------------------------------------------------------------------
(* The game: startGame, restartGame, endGame and the frame callback of     *)
(* GameScene (specification SpecGame).  Lengths are in thousandths of a    *)
(* world unit, so  seconds * NOTE_SPEED  is  milliseconds * NOTE_SPEED.    *)
(* notesState is the array of the application's chart, and the notes in    *)
(* activeNotes are the objects of that array.  restartSignal is left out:  *)
(* GameScene does not read it.                                             *)

\* note.hit || note.missed, note[f] as a condition: undefined is falsy
Flag(note, f) == f \in DOMAIN note /\ note[f] = TRUE

\* note.f = v
SetField(note, f, v) ==
    [g \in DOMAIN note \cup {f} |-> IF g = f THEN v ELSE note[g]]

\* currentChart.forEach((n) => { n.hit = false; n.missed = false; })
ResetFlags(chart) ==
    [k \in DOMAIN chart |->
        SetField(SetField(chart[k], "hit", FALSE), "missed", FALSE)]

MarkMissedAlsoHit(note) ==
    SetField(SetField(note, "missed", TRUE), "hit", TRUE)

\* note.missed = true
MarkMissed(note) == SetField(note, "missed", TRUE)

MarkHitRetimes(note, time) ==
    SetField(SetField(note, "hit", TRUE), "time", time)

\* note.hit = true; note.hitTime = time
MarkHit(note, time) == SetField(SetField(note, "hit", TRUE), "hitTime", time)

\* audio.duration of each resource, in milliseconds
DurationOf ==
    [f \in {SONG_URL.file} \cup Files |->
        TimeOf(DataLength(AudioOf(f).data), AudioOf(f).sampleRate)]

\* the audio element gap milliseconds later: playback runs to the end of
\* the resource and stops there
AudioAfter(a, gap, duration) ==
    IF a.paused THEN a
    ELSE IF a.currentTime + gap >= duration
    THEN [currentTime |-> duration, paused |-> TRUE, ended |-> TRUE]
    ELSE [a EXCEPT !.currentTime = a.currentTime + gap]

\* Math.abs(SPAWN_Z - PLAYER_Z) / NOTE_SPEED, in milliseconds
spawnAheadTime == Abs(SPAWN_Z - PLAYER_Z) \div NOTE_SPEED

\* the spawn loop: nextNoteIndex after it
RECURSIVE SpawnUpTo(_, _, _)
SpawnUpTo(chart, n, time) ==
    IF n < Len(chart) /\ chart[n + 1].time - spawnAheadTime <= time
    THEN SpawnUpTo(chart, n + 1, time)
    ELSE n

\* handleNoteHit(note, true), multiplier being the one of the last render
handleNoteHit(g, mult) ==
    LET newCombo == g.combo + 1
    IN  [g EXCEPT !.combo = newCombo,
                  !.multiplier = IF newCombo > 30 THEN 8
                                 ELSE IF newCombo > 20 THEN 4
                                 ELSE IF newCombo > 10 THEN 2 ELSE 1,
                  !.score = g.score + 150 * mult,
                  !.health = IF g.health + 2 < 100 THEN g.health + 2 ELSE 100]

\* handleNoteMiss(note)
handleNoteMiss(g) ==
    LET newHealth == g.health - 15
    IN  [g EXCEPT !.combo = 0,
                  !.multiplier = 1,
                  !.health = IF newHealth <= 0 THEN 0 ELSE newHealth,
                  !.timers = IF newHealth <= 0 THEN g.timers + 1 ELSE g.timers]

Remove(seq, k) == SubSeq(seq, 1, k - 1) \o SubSeq(seq, k + 1, Len(seq))

DistSq(handPos, note, currentZ) ==
    (handPos[1] - LANE_X_POSITIONS[note.lineIndex + 1])
        * (handPos[1] - LANE_X_POSITIONS[note.lineIndex + 1])
    + (handPos[2] - LAYER_Y_POSITIONS[note.lineLayer + 1])
        * (handPos[2] - LAYER_Y_POSITIONS[note.lineLayer + 1])
    + (handPos[3] - currentZ) * (handPos[3] - currentZ)

\* the collision loop, for (let i = activeNotes.length - 1; i >= 0; i--),
\* from position k of the active list down
RECURSIVE Collide(_, _, _, _, _)
Collide(g, k, time, hands, mult) ==
    IF k = 0 THEN g
    ELSE
      LET n        == g.active[k]
          note     == g.chart[n]
          currentZ == PLAYER_Z - (note.time - time) * NOTE_SPEED
          handPos  == IF note.type = "left" THEN hands.left ELSE hands.right
      IN  IF Flag(note, "hit") \/ Flag(note, "missed")
          THEN Collide(g, k - 1, time, hands, mult)
          ELSE IF currentZ > MISS_Z
          THEN Collide(handleNoteMiss(
                          [g EXCEPT !.chart[n] = MarkMissed(note),
                                    !.active = Remove(g.active, k)]),
                       k - 1, time, hands, mult)
          ELSE IF /\ currentZ > PLAYER_Z - 1200
                  /\ currentZ < PLAYER_Z + 1200
                  /\ handPos # <<>>
                  /\ DistSq(handPos, note, currentZ) < 1500000
          THEN Collide(handleNoteHit(
                          [g EXCEPT !.chart[n] = MarkHit(note, time),
                                    !.active = Remove(g.active, k)], mult),
                       k - 1, time, hands, mult)
          ELSE Collide(g, k - 1, time, hands, mult)

\* setGameStatus(victory ? VICTORY : GAME_OVER); audio.pause()
endGame(victory) ==
    /\ gameStatus' = IF victory THEN "VICTORY" ELSE "GAME_OVER"
    /\ audioRef' = [audioRef EXCEPT !.paused = TRUE]

analysisVars == <<analyzing, songUrl, isCustomSong, pending, requested,
                  settled, superseded>>

\* videoRef.current.onloadeddata: setIsCameraReady(true)
CameraReady ==
    /\ ~isCameraReady
    /\ isCameraReady' = TRUE
    /\ UNCHANGED <<gameStatus, currentChart, analysisVars, scoreVars, audioRef,
                   playsPending, playsAborted, endGameTimers, sceneVars,
                   passVars, pairVars>>

\* a click on the start button, which is rendered in the idle menu once the
\* camera is ready: startGame up to  await audio.play()
startGame ==
    /\ gameStatus = "IDLE" /\ ~analyzing
    /\ ~(~isCameraReady \/ analyzing)
    /\ playsPending + playsAborted < MaxPlayRequests
    /\ score' = 0
    /\ combo' = 0
    /\ multiplier' = 1
    /\ health' = 100
    /\ currentChart' = ResetFlags(currentChart)
    /\ audioRef' = [currentTime |-> 0, paused |-> FALSE, ended |-> FALSE]
    /\ playsPending' = playsPending + 1
    /\ UNCHANGED <<gameStatus, analysisVars, isCameraReady, playsAborted,
                   endGameTimers, sceneVars, passVars, pairVars>>

\* play() resolved: setGameStatus(PLAYING)
startGameResumes ==
    /\ playsPending > 0
    /\ playsPending' = playsPending - 1
    /\ gameStatus' = "PLAYING"
    /\ UNCHANGED <<currentChart, analysisVars, isCameraReady, scoreVars,
                   audioRef, playsAborted, endGameTimers, sceneVars, passVars,
                   pairVars>>

\* play() rejected, by a load() or by the browser: the catch block alerts
startGameFails ==
    /\ \/ /\ playsAborted > 0
          /\ playsAborted' = playsAborted - 1
          /\ UNCHANGED <<playsPending, audioRef>>
       \/ /\ playsPending > 0
          /\ playsPending' = playsPending - 1
          /\ audioRef' = [audioRef EXCEPT !.paused = TRUE]
          /\ UNCHANGED playsAborted
    /\ UNCHANGED <<gameStatus, currentChart, analysisVars, isCameraReady,
                   scoreVars, endGameTimers, sceneVars, passVars, pairVars>>

\* the useFrame callback of GameScene past its return for
\* gameStatus !== PLAYING, the audio having played gap more milliseconds
useFrame ==
    /\ gameStatus = "PLAYING"
    /\ \E gap \in FrameGaps, hands \in HandPoses :
        LET played == AudioAfter(audioRef, gap, DurationOf[songUrl.file])
            time   == played.currentTime
        IN  /\ currentTime' = time
            /\ IF played.ended
               THEN /\ gameStatus' = "VICTORY"
                    /\ audioRef' = [played EXCEPT !.paused = TRUE]
                    /\ UNCHANGED <<currentChart, scoreVars, endGameTimers,
                                   activeNotes, nextNoteIndex>>
               ELSE LET next    == SpawnUpTo(currentChart, nextNoteIndex, time)
                        spawned == activeNotes \o
                                     [k \in 1..(next - nextNoteIndex) |->
                                         nextNoteIndex + k]
                        g == Collide([chart |-> currentChart,
                                      active |-> spawned, combo |-> combo,
                                      multiplier |-> multiplier,
                                      score |-> score, health |-> health,
                                      timers |-> endGameTimers],
                                     Len(spawned), time, hands, multiplier)
                    IN  /\ nextNoteIndex' = next
                        /\ activeNotes' = g.active
                        /\ currentChart' = g.chart
                        /\ combo' = g.combo
                        /\ multiplier' = g.multiplier
                        /\ score' = g.score
                        /\ health' = g.health
                        /\ endGameTimers' = g.timers
                        /\ audioRef' = played
                        /\ UNCHANGED gameStatus
    /\ UNCHANGED <<analysisVars, isCameraReady, playsPending, playsAborted,
                   passVars, pairVars>>

\* the timer of handleNoteMiss: endGame(false)
endGameTimer ==
    /\ endGameTimers > 0
    /\ endGameTimers' = endGameTimers - 1
    /\ endGame(FALSE)
    /\ UNCHANGED <<currentChart, analysisVars, isCameraReady, scoreVars,
                   playsPending, playsAborted, sceneVars, passVars, pairVars>>

\* a click on the restart button of the victory / game over screen
restartGame ==
    /\ gameStatus \in {"GAME_OVER", "VICTORY"}
    /\ score' = 0
    /\ combo' = 0
    /\ multiplier' = 1
    /\ health' = 100
    /\ audioRef' = [audioRef EXCEPT !.paused = TRUE, !.currentTime = 0,
                                    !.ended = FALSE]
    /\ gameStatus' = "IDLE"
    /\ UNCHANGED <<currentChart, analysisVars, isCameraReady, playsPending,
                   playsAborted, endGameTimers, sceneVars, passVars, pairVars>>

NextGame ==
    \/ initAudio
    \/ initAudioResumes
    \/ handleFileUpload
    \/ handleFileUploadResumes
    \/ CameraReady
    \/ startGame
    \/ startGameResumes
    \/ startGameFails
    \/ useFrame
    \/ endGameTimer
    \/ restartGame

SpecGame == Init /\ [][NextGame]_vars

----------------------------------------------------------------------------
(* Two invocations in flight together (specification SpecPair).  The two   *)
(* call sites are initAudio and handleFileUpload.  Each invocation has its *)
(* own locals; JavaScript runs the code between two awaits to completion,  *)
(* so the frame loop of one invocation is not interleaved with code of the *)
(* other one, while the awaits are.                                        *)

Calls == {"initAudio", "handleFileUpload"}

\* the decoded audio of the resources the application analyses
PairInputs == {AudioOf(f) : f \in {SONG_URL.file} \cup Files}

\* the chart of each of them when analysed alone, computed once
AnalysedAlone == [a \in PairInputs |-> Analysed(a).value]

InFlight(c) == calls[c].pc \notin {"idle", "returned"}

CallInitSharedId(c) ==
    [LoopInit EXCEPT !.id = IF \E o \in Calls \ {c} : calls[o].locals.id > 0
                            THEN calls[CHOOSE o \in Calls \ {c} :
                                         calls[o].locals.id > 0].locals.id
                            ELSE 0]

\* the locals an invocation declares before its loop: its own, fresh ones
CallInit(c) == LoopInit

SetCall(c, rec) ==
    /\ calls' = [calls EXCEPT ![c] = rec]
    /\ UNCHANGED <<passVars, appVars>>

\* analyzeAudioAndGenerateChart(url) up to  await fetch(audioUrl)
CallStart(c) ==
    /\ running = "none"
    /\ calls[c].pc = "idle"
    /\ SetCall(c, [calls[c] EXCEPT
                      !.pc = "fetch", !.outcome = "pending",
                      !.overlapped = \E o \in Calls \ {c} : InFlight(o)])
    /\ UNCHANGED running

CallThrow(c, e) ==
    /\ SetCall(c, [calls[c] EXCEPT
                      !.pc = "returned", !.outcome = Caught(e).outcome,
                      !.result = Caught(e).value, !.logged = Caught(e).logged])
    /\ UNCHANGED running

\* the continuations of  await fetch  and  await res.arrayBuffer()
CallAwaitOk(c) ==
    /\ running = "none"
    /\ calls[c].pc \in {"fetch", "arrayBuffer"}
    /\ SetCall(c, [calls[c] EXCEPT
                      !.pc = IF calls[c].pc = "fetch" THEN "arrayBuffer"
                                                     ELSE "decodeAudioData"])
    /\ UNCHANGED running

CallAwaitFails(c) ==
    /\ running = "none"
    /\ calls[c].pc \in {"fetch", "arrayBuffer", "decodeAudioData"}
    /\ CallThrow(c, calls[c].pc)

\* the continuation of  await ctx.decodeAudioData(buffer) , up to let i = 0
CallDecodeOk(c) ==
    /\ running = "none"
    /\ calls[c].pc = "decodeAudioData"
    /\ \E audio \in PairInputs :
          SetCall(c, [calls[c] EXCEPT !.pc = "loop", !.audio = audio,
                                      !.locals = CallInit(c)])
    /\ running' = c

CallIteration(c) ==
    /\ running = c
    /\ calls[c].pc = "loop"
    /\ LoopCondition(calls[c].locals.i, calls[c].audio.data)
    /\ SetCall(c, [calls[c] EXCEPT
                      !.locals = LoopBody(calls[c].locals, calls[c].audio.data,
                                          calls[c].audio.sampleRate)])
    /\ UNCHANGED running

CallReturn(c) ==
    /\ running = c
    /\ calls[c].pc = "loop"
    /\ ~LoopCondition(calls[c].locals.i, calls[c].audio.data)
    /\ SetCall(c, [calls[c] EXCEPT
                      !.pc = "returned", !.outcome = "resolved",
                      !.result = LeadInFilter(calls[c].locals.notes)])
    /\ running' = "none"

NextPair ==
    \E c \in Calls :
        \/ CallStart(c)
        \/ CallAwaitOk(c)
        \/ CallAwaitFails(c)
        \/ CallDecodeOk(c)
        \/ CallIteration(c)
        \/ CallReturn(c)

SpecPair == Init /\ [][NextPair]_vars

----------------------------------------------------------------------------
(* Properties of the returned chart (specification Spec) *)

Returned == pc = "returned" /\ outcome = "resolved" /\ logged = "none"

Isolated(note) == note.id \notin streamIds

\* C1: the notes of every returned chart are ordered by time:
\* notes[k].time <= notes[k+1].time for every consecutive pair.
C1_Monotonic ==
    pc = "returned" =>
        \A k \in 1..(Len(result) - 1) : result[k].time <= result[k + 1].time

C1_Witness ==
    /\ Returned
    /\ Len(result) >= 3
    /\ result[1].time < result[2].time

\* C2: every note of a returned chart has time > 1.8 s, and no beat
\* accepted at a time <= 1.8 s is in it.
C2_LeadInGuard ==
    pc = "returned" =>
        /\ \A k \in DOMAIN result : result[k].time > 1800
        /\ logged = "none" =>
              \A k \in DOMAIN notes :
                  notes[k].time <= 1800 =>
                      \A j \in DOMAIN result : result[j] # notes[k]

C2_Witness ==
    /\ Returned
    /\ Len(result) > 0
    /\ Len(notes) > Len(result)

\* the frame just analysed passed both hard gates and both adaptive
\* thresholds and was rejected for coming within MIN_NOTE_GAP of the last note
RejectedForGap ==
    /\ pc = "loop"
    /\ i > 0
    /\ LET rms  == energyHistory[Len(energyHistory)]
           flux == fluxHistory[Len(fluxHistory)]
           time == TimeOf(i - hopSize, sampleRate)
       IN  /\ ~RmsGateRejects(rms)
           /\ ~FluxGateRejects(rms, flux)
           /\ IsBeatNoGap(rms, flux, energyHistory, fluxHistory, time,
                          lastNoteTime)
           /\ lastNoteTime < time
           /\ time - lastNoteTime <= MIN_NOTE_GAP

\* C3: two consecutive non-stream notes of a chart are at least 0.12 s
\* apart, and no two accepted beats lie within 0.12 s of each other, also
\* when frames 0.064 s apart pass the gates and cross the thresholds.
C3_MinimumGap ==
    /\ \A k \in 1..(Len(result) - 1) :
          (Isolated(result[k]) /\ Isolated(result[k + 1])) =>
              result[k + 1].time - result[k].time >= 120
    /\ pc \in {"loop", "returned"} =>
          \A j, k \in DOMAIN notes :
              j < k => notes[k].time - notes[j].time >= 120

C3_Witness ==
    /\ RejectedForGap
    /\ notes # <<>>
    /\ notes[Len(notes)].time > 1800

\* C4: two consecutive isolated (non-stream) notes of a chart have
\* different hands.
C4_Alternation ==
    pc = "returned" =>
        \A k \in 1..(Len(result) - 1) :
            (Isolated(result[k]) /\ Isolated(result[k + 1])) =>
                result[k].type # result[k + 1].type

C4_Witness ==
    /\ Returned
    /\ \E k \in 1..(Len(result) - 1) :
          /\ Isolated(result[k])
          /\ Isolated(result[k + 1])
          /\ result[k + 1].cutDirection = "DOWN"
          /\ result[k].cutDirection = "DOWN"

\* C5: every emitted note has lineIndex in 0..3 and lineLayer in 0..2.
C5_DomainBounds ==
    pc \in {"loop", "returned"} =>
        /\ \A k \in DOMAIN notes :
              notes[k].lineIndex \in 0..3 /\ notes[k].lineLayer \in 0..2
        /\ \A k \in DOMAIN result :
              result[k].lineIndex \in 0..3 /\ result[k].lineLayer \in 0..2

C5_Witness ==
    /\ Returned
    /\ \E k \in DOMAIN result : result[k].lineIndex = 3
    /\ \E k \in DOMAIN result : result[k].lineIndex = 1

\* C6: when fetch, arrayBuffer or decodeAudioData fails, the promise
\* resolves to the empty chart; it is never rejected.
C6_FailureGivesEmptyChart ==
    /\ outcome # "rejected"
    /\ (pc = "returned" /\ logged # "none") =>
          (outcome = "resolved" /\ result = <<>>)

C6_Witness ==
    /\ pc = "returned"
    /\ logged = "decodeAudioData"
    /\ outcome = "resolved"

\* every frame the loop analyses has rms < 0.06
AllFramesQuiet(d) ==
    \A k \in 0..Len(d.blocks) :
        LoopCondition(k * hopSize, d) =>
            Rms(Frame(d, k * hopSize)) < 60

\* C8: when every analysed frame has rms < 0.06, the returned chart is
\* empty.
C8_QuietGivesEmptyChart ==
    (Returned /\ AllFramesQuiet(data)) => result = <<>>

\* a tone at 0.03 that lasts past the lead-in, analysed to the end
C8_Witness ==
    /\ Returned
    /\ AllFramesQuiet(data)
    /\ \A k \in DOMAIN data.blocks : data.blocks[k] = 30
    /\ TimeOf(i - hopSize, sampleRate) > 1800

----------------------------------------------------------------------------
(* Properties of the frame loop (specification Spec) *)

\* a step of the loop: the frame at i is analysed and i moves on by a hop
IterationStep == pc = "loop" /\ pc' = "loop" /\ i' = i + hopSize

\* the step emits a note / emits none
Accepted == Len(notes') = Len(notes) + 1
Rejected == notes' = notes

\* rms, flux and time of the frame at i, from the samples
FrameRms == Rms(Frame(data, i))
FrameFlux == Flux(Spectrum(Frame(data, i)), prevSpectrum)
FrameTime == TimeOf(i, sampleRate)

\* the last n values of a sequence, in their order
LastN(s, n) == IF Len(s) > n THEN SubSeq(s, Len(s) - n + 1, Len(s)) ELSE s

\* the rolling windows once the frame at i has been added to them
EnergyWindow == LastN(Append(energyHistory, FrameRms), 50)
FluxWindow == LastN(Append(fluxHistory, FrameFlux), 50)

\* rms >= 0.06 and flux >= 0.6 * rms
PassesHardGates == FrameRms >= 60 /\ FrameFlux * 10 >= FrameRms * 6

\* rms > 1.15 * avgEnergy, flux > 2.2 * avgFlux, time - lastAcceptedTime > 0.12
EnergyAboveAverage ==
    FrameRms * Len(EnergyWindow) * 100 > Sum(EnergyWindow) * 115
FluxAboveAverage ==
    FrameFlux * Len(FluxWindow) * 10 > Sum(FluxWindow) * 22
GapElapsed == FrameTime - lastNoteTime > 120

\* the number after "note-"
IdNumber(note) == note.id[2]

\* C14: within a chart the ids are pairwise distinct and increase with the
\* position; the id counter goes up by exactly one on every accepted beat
\* and stays on every rejected frame, so the n-th accepted beat (counted
\* from 0) carries the id note-n.
C14_UniqueIds ==
    /\ [](/\ id = Len(notes)
          /\ \A k \in DOMAIN notes : notes[k].id = NoteId(k - 1)
          /\ \A j, k \in DOMAIN result :
                j < k => /\ result[j].id # result[k].id
                         /\ IdNumber(result[j]) < IdNumber(result[k]))
    /\ [][IterationStep =>
            \/ Accepted /\ id' = id + 1
            \/ Rejected /\ id' = id]_vars

C14_Witness ==
    /\ Returned
    /\ Len(result) >= 2
    /\ result[1].id = NoteId(1)
    /\ result[2].id = NoteId(2)

\* C15: whenever a frame is accepted as a beat, the energy history holds
\* the frame's rms and its mean avgEnergy is strictly positive, so the
\* divisor of intensity = rms / avgEnergy is not zero.
C15_PositiveAverage ==
    [][(IterationStep /\ Accepted) =>
          /\ Len(energyHistory') > 0
          /\ energyHistory'[Len(energyHistory')] = FrameRms
          /\ Sum(energyHistory') > 0
          /\ Intensity(FrameRms, energyHistory').den > 0]_vars

\* the first beat of a recording that starts with silence, just accepted
C15_Witness ==
    /\ pc = "loop"
    /\ Len(notes) = 1
    /\ notes[1].time = TimeOf(i - hopSize, sampleRate)
    /\ energyHistory[1] = 0
    /\ Len(energyHistory) > 1

\* C17: after k frames, accepted or rejected, the energy history and the
\* flux history both hold the last min(k, 50) values in arrival order:
\* they have the same length, never more than 50 entries, and a step adds
\* the frame's value at the end and drops the oldest one of a full history.
C17_RollingWindow ==
    /\ [](pc = "loop" =>
            /\ Len(energyHistory) = Len(fluxHistory)
            /\ Len(energyHistory) <= 50
            /\ Len(energyHistory) =
                  IF i \div hopSize < 50 THEN i \div hopSize ELSE 50)
    /\ [][IterationStep =>
            /\ energyHistory' = EnergyWindow
            /\ fluxHistory' = FluxWindow]_vars

C17_Witness ==
    /\ pc = "loop"
    /\ i \div hopSize > 52
    /\ Len(energyHistory) = 50
    /\ energyHistory[50] > energyHistory[1]
    /\ fluxHistory[49] > 0

\* C18: a frame that passes both hard gates is accepted exactly when
\* rms > 1.15 * avgEnergy, flux > 2.2 * avgFlux and
\* time - lastAcceptedTime > 0.12, the averages being taken over the
\* windows that already hold the frame's own values.
C18_AcceptedIff ==
    [][(IterationStep /\ PassesHardGates) =>
          (Accepted <=>
              (EnergyAboveAverage /\ FluxAboveAverage /\ GapElapsed))]_vars

\* the last frame passed both gates, rose above the flux average after the
\* gap, and was rejected for its energy alone
C18_Witness ==
    /\ pc = "loop"
    /\ i > 0
    /\ LET rms  == energyHistory[Len(energyHistory)]
           flux == fluxHistory[Len(fluxHistory)]
           time == TimeOf(i - hopSize, sampleRate)
       IN  /\ rms >= 60
           /\ flux * 10 >= rms * 6
           /\ rms * Len(energyHistory) * 100 <= Sum(energyHistory) * 115
           /\ flux * Len(fluxHistory) * 10 > Sum(fluxHistory) * 22
           /\ time - lastNoteTime > 120
           /\ notes # <<>>

\* C19: every accepted beat has rms >= 0.06 and flux >= 0.6 * rms: a frame
\* that fails a hard gate is rejected whatever the averages and the time
\* since the last note are.
C19_HardGates ==
    [][IterationStep =>
          /\ Accepted => PassesHardGates
          /\ ~PassesHardGates => Rejected]_vars

\* the last frame was above both averages after the gap and loud enough,
\* and fell at the flux gate
C19_Witness ==
    /\ pc = "loop"
    /\ i > 0
    /\ LET rms  == energyHistory[Len(energyHistory)]
           flux == fluxHistory[Len(fluxHistory)]
           time == TimeOf(i - hopSize, sampleRate)
       IN  /\ rms >= 60
           /\ flux * 10 < rms * 6
           /\ rms * Len(energyHistory) * 100 > Sum(energyHistory) * 115
           /\ flux * Len(fluxHistory) * 10 > Sum(fluxHistory) * 22
           /\ time - lastNoteTime > 120
           /\ time > 1800

\* C20: lastNoteTime and lastHand are the time and hand of the note emitted
\* last, 0 and "right" before the first one; an accepted beat sets them to
\* its own time and hand, and a rejected frame leaves lastNoteTime,
\* lastHand, the id counter and the note list as they were.
C20_LastNoteMemory ==
    /\ [](IF notes = <<>>
          THEN lastNoteTime = 0 /\ lastHand = "right"
          ELSE /\ lastNoteTime = notes[Len(notes)].time
               /\ lastHand = notes[Len(notes)].type)
    /\ [][IterationStep =>
            /\ Accepted =>
                  /\ lastNoteTime' = FrameTime
                  /\ lastHand' = notes'[Len(notes')].type
                  /\ SubSeq(notes', 1, Len(notes)) = notes
            /\ ~(PassesHardGates /\ EnergyAboveAverage /\ FluxAboveAverage
                    /\ GapElapsed) =>
                  UNCHANGED <<lastNoteTime, lastHand, id, notes>>]_vars

\* two notes, the second one for the left hand, and a rejected frame since
C20_Witness ==
    /\ pc = "loop"
    /\ Len(notes) >= 2
    /\ lastHand = "left"
    /\ notes[Len(notes) - 1].type = "right"
    /\ TimeOf(i - hopSize, sampleRate) > lastNoteTime

\* the properties of a Note object
Properties(note) == DOMAIN note

\* C12 as stated: every note of a freshly generated chart has hit = false
\* and missed = false.
C12_FlagsFalse ==
    Returned =>
        \A k \in DOMAIN result :
            /\ "hit" \in Properties(result[k]) /\ result[k].hit = FALSE
            /\ "missed" \in Properties(result[k]) /\ result[k].missed = FALSE

\* C12: no note of a freshly generated chart has a hit or a missed
\* property (reading either gives undefined, which every reader of the
\* flags treats as false), and the pass never writes one: no note has at
\* any point of the pass more than the six properties it is pushed with.
C12_FlagsUnset ==
    /\ \A k \in DOMAIN notes :
          Properties(notes[k]) = {"id", "time", "lineIndex", "lineLayer",
                                  "type", "cutDirection"}
    /\ \A k \in DOMAIN result :
          /\ "hit" \notin Properties(result[k])
          /\ "missed" \notin Properties(result[k])

C12_Witness ==
    /\ Returned
    /\ Len(result) = 1
    /\ "hit" \notin Properties(result[1])
    /\ result[1].cutDirection = "UP"

----------------------------------------------------------------------------
(* Properties of the chart generator (specifications Spec, FairSpec) *)

\* time of the frame at i minus the time of the last accepted beat
StreamGap == FrameTime - lastNoteTime

\* the note a step emits
EmittedNote == notes'[Len(notes')]

\* intensity > n / 10, intensity being rms over the mean of the window
IntensityAbove(n) ==
    FrameRms * Len(EnergyWindow) * 10 > Sum(EnergyWindow) * n

\* the frame before i was accepted: its rms is the last entry of the window
JustAccepted ==
    /\ pc = "loop"
    /\ notes # <<>>
    /\ i > 0
    /\ notes[Len(notes)].time = TimeOf(i - hopSize, sampleRate)

\* intensity of the frame before i is at most n / 10
LastIntensityAtMost(n) ==
    energyHistory[Len(energyHistory)] * Len(energyHistory) * 10
        <= Sum(energyHistory) * n

\* C21: an accepted beat is stream-classified exactly when its time minus
\* the time of the previous accepted beat (0 if there is none) is below
\* 0.22 s, so only for gaps strictly between 0.12 s and 0.22 s; a stream
\* note has the hand opposite to lastHand, cut direction DOWN, layer 0 and
\* lane 1 if left else 2, whatever its intensity is.
C21_StreamClassification ==
    /\ [](lastNoteTime = IF notes = <<>> THEN 0 ELSE notes[Len(notes)].time)
    /\ [][(IterationStep /\ Accepted) =>
            /\ (EmittedNote.id \in streamIds') <=> (StreamGap < 220)
            /\ StreamGap < 220 =>
                  /\ StreamGap > 120
                  /\ EmittedNote.type # lastHand
                  /\ EmittedNote.cutDirection = "DOWN"
                  /\ EmittedNote.lineLayer = 0
                  /\ EmittedNote.lineIndex =
                        IF EmittedNote.type = "left" THEN 1 ELSE 2]_vars

\* a stream note whose intensity, at most 1.3, would have made an isolated
\* note an ANY note on an outer lane
C21_Witness ==
    /\ JustAccepted
    /\ Len(notes) >= 2
    /\ notes[Len(notes)].id \in streamIds
    /\ notes[Len(notes)].time - notes[Len(notes) - 1].time \in 121..219
    /\ LastIntensityAtMost(13)
    /\ notes[Len(notes)].cutDirection = "DOWN"

\* C22: an isolated (non-stream) beat is placed by its intensity:
\* above 2.0 DOWN, layer 0, lane 1 if left else 2; above 1.3 and at most
\* 2.0 UP, layer 0, lane 1 if left else 2; otherwise ANY, layer 1, lane 0
\* if left else 3; its hand is right if intensity > 1.4 else left, and the
\* other hand when that is lastHand.
C22_IsolatedPlacement ==
    [][(IterationStep /\ Accepted /\ StreamGap >= 220) =>
          LET byRule == IF IntensityAbove(14) THEN "right" ELSE "left"
              hand   == IF byRule # lastHand THEN byRule
                        ELSE IF byRule = "left" THEN "right" ELSE "left"
          IN  /\ EmittedNote.type = hand
              /\ IF IntensityAbove(20)
                 THEN /\ EmittedNote.cutDirection = "DOWN"
                      /\ EmittedNote.lineLayer = 0
                      /\ EmittedNote.lineIndex = IF hand = "left" THEN 1 ELSE 2
                 ELSE IF IntensityAbove(13)
                 THEN /\ EmittedNote.cutDirection = "UP"
                      /\ EmittedNote.lineLayer = 0
                      /\ EmittedNote.lineIndex = IF hand = "left" THEN 1 ELSE 2
                 ELSE /\ EmittedNote.cutDirection = "ANY"
                      /\ EmittedNote.lineLayer = 1
                      /\ EmittedNote.lineIndex =
                            IF hand = "left" THEN 0 ELSE 3]_vars

\* an isolated UP note just emitted after an isolated ANY note
C22_Witness ==
    /\ JustAccepted
    /\ Len(notes) >= 2
    /\ notes[Len(notes)].id \notin streamIds
    /\ notes[Len(notes)].cutDirection = "UP"
    /\ ~LastIntensityAtMost(13)
    /\ LastIntensityAtMost(20)
    /\ \E k \in DOMAIN notes :
          notes[k].cutDirection = "ANY" /\ notes[k].id \notin streamIds

\* the number of notes emitted at or before the end of the lead-in
EarlyNotes == Cardinality({k \in DOMAIN notes : notes[k].time <= 1800})

\* C23: the lead-in filter runs once, after the loop: the returned chart is
\* the emitted notes with time > 1.8 s, in emission order and unchanged,
\* which are the emitted notes after the early ones; a beat accepted at a
\* time <= 1.8 s is emitted like any other one and advances lastNoteTime,
\* lastHand and the id counter.
C23_FilterAfterPass ==
    /\ [](Returned =>
            /\ result = SubSeq(notes, EarlyNotes + 1, Len(notes))
            /\ \A k \in DOMAIN notes :
                  notes[k].time > 1800 <=> k > EarlyNotes)
    /\ [][(/\ IterationStep
           /\ PassesHardGates
           /\ EnergyAboveAverage
           /\ FluxAboveAverage
           /\ GapElapsed
           /\ FrameTime <= 1800) =>
              /\ Len(notes') = Len(notes) + 1
              /\ EmittedNote.time = FrameTime
              /\ lastNoteTime' = FrameTime
              /\ lastHand' = EmittedNote.type
              /\ id' = id + 1]_vars

\* the first note of the chart is the stream note of a beat in the
\* lead-in, and has the id and the hand that the early beat left for it
C23_Witness ==
    /\ Returned
    /\ Len(result) >= 2
    /\ EarlyNotes = 1
    /\ notes[1].time > 1000
    /\ result[1].id = NoteId(1)
    /\ result[1].id \in streamIds
    /\ result[1].type = "right"

\* C26: two notes emitted one after the other have different hands, stream
\* or isolated: every emitted note has the hand opposite to lastHand, the
\* first one of a pass is left, and the hands alternate from there.
C26_HandsAlternate ==
    /\ [](\A k \in DOMAIN notes :
            notes[k].type = IF k % 2 = 1 THEN "left" ELSE "right")
    /\ [][(IterationStep /\ Accepted) =>
            /\ EmittedNote.type # lastHand
            /\ EmittedNote.type \in {"left", "right"}]_vars

\* an isolated note of intensity at most 1.4, which the rule makes a left
\* note, just emitted for the right hand after a left one
C26_Witness ==
    /\ JustAccepted
    /\ Len(notes) >= 2
    /\ notes[Len(notes)].id \notin streamIds
    /\ LastIntensityAtMost(14)
    /\ notes[Len(notes)].type = "right"
    /\ notes[Len(notes) - 1].type = "left"

\* hand, lane, layer and cut direction of a note fit together
Consistent(note) ==
    /\ note.type = "left" => note.lineIndex \in {0, 1}
    /\ note.type = "right" => note.lineIndex \in {2, 3}
    /\ note.lineLayer = 1 <=> note.cutDirection = "ANY"
    /\ note.lineLayer = 1 <=> note.lineIndex \in {0, 3}
    /\ note.lineLayer # 2
    /\ note.cutDirection \notin {"LEFT", "RIGHT"}

\* C27: every emitted note has a left hand in lane 0 or 1 and a right hand
\* in lane 2 or 3; its layer is 1 exactly when its cut direction is ANY and
\* exactly when its lane is 0 or 3; layer 2 and the cut directions LEFT and
\* RIGHT do not occur.
C27_ConsistentPlacement ==
    /\ \A k \in DOMAIN notes : Consistent(notes[k])
    /\ \A k \in DOMAIN result : Consistent(result[k])

C27_Witness ==
    /\ Returned
    /\ \E k \in DOMAIN result :
          result[k].type = "left" /\ result[k].lineIndex = 0
    /\ \E k \in DOMAIN result :
          result[k].type = "right" /\ result[k].lineIndex = 2
    /\ \E k \in DOMAIN result :
          result[k].type = "left" /\ result[k].lineIndex = 1

\* the number of frames of a buffer of n samples
FrameCount(n) ==
    IF n <= windowSize THEN 0
    ELSE (n - windowSize + hopSize - 1) \div hopSize

\* C28: the loop ends for every buffer length: it analyses the frames at
\* the offsets 0, hop, 2 * hop, ... that are strictly below
\* length - windowSize, every frame a full window inside the buffer, and
\* then returns; a buffer of at most windowSize samples has no frame and
\* gives the empty chart.
C28_LoopTerminates ==
    /\ (pc = "loop") ~> (pc = "returned")
    /\ [](pc = "loop" =>
            /\ i % hopSize = 0
            /\ i \div hopSize <= FrameCount(DataLength(data)))
    /\ [][IterationStep =>
            /\ i < DataLength(data) - windowSize
            /\ i + windowSize <= DataLength(data)
            /\ Len(Frame(data, i)) * hopSize = windowSize]_vars
    /\ [](Returned =>
            /\ i \div hopSize = FrameCount(DataLength(data))
            /\ DataLength(data) <= windowSize => (i = 0 /\ result = <<>>))

\* a buffer of exactly windowSize samples returned without a frame, in a
\* pass whose buffer one sample longer would have had one
C28_Witness ==
    /\ Returned
    /\ DataLength(data) = windowSize
    /\ i = 0
    /\ data.blocks[1] = -900

----------------------------------------------------------------------------
(* Properties of the application (specifications SpecApp, FairSpecApp) *)

C10_AnalysisEnds ==
    /\ \A r \in 1..(1 + MaxUploads) :
          (\E p \in pending : p.req = r) ~> (r \in DOMAIN settled)
    /\ [][\A p \in pending :
            p \notin pending' =>
                /\ analyzing' = FALSE
                /\ gameStatus' = "IDLE"
                /\ settled'[p.req].logged # "none" => currentChart' = <<>>]_vars

C10_Witness ==
    /\ pending = {}
    /\ requested > 1
    /\ settled[1].logged = "fetch"
    /\ settled[requested].logged = "decodeAudioData"
    /\ gameStatus = "IDLE"
    /\ analyzing = FALSE
    /\ currentChart = <<>>

----------------------------------------------------------------------------
(* Properties of invocations in flight together (specification SpecPair) *)

\* C16: two invocations whose awaits interleave share no mutable state:
\* each one that decodes its audio returns exactly the chart that the
\* analysis of this audio returns when it runs alone, and a step of one
\* invocation changes nothing of the other one.
C16_Isolation ==
    /\ [](\A c \in Calls :
            (calls[c].pc = "returned" /\ calls[c].logged = "none") =>
                calls[c].result = AnalysedAlone[calls[c].audio])
    /\ [][\A c \in Calls :
            calls'[c] # calls[c] =>
                \A o \in Calls \ {c} : calls'[o] = calls[o]]_vars

\* both invocations returned a chart, for different recordings, and the
\* second was started while the first was in flight
C16_Witness ==
    /\ \A c \in Calls :
          /\ calls[c].pc = "returned"
          /\ calls[c].logged = "none"
          /\ calls[c].result # <<>>
    /\ calls["initAudio"].audio # calls["handleFileUpload"].audio
    /\ calls["handleFileUpload"].overlapped

----------------------------------------------------------------------------
(* Properties of the chart in the application and the game                 *)
(* (specification SpecGame)                                                *)

\* the six properties a note is generated with
Generated(note) ==
    [f \in {"id", "time", "lineIndex", "lineLayer", "type", "cutDirection"} |->
        note[f]]

\* every property of a note but hit and missed
OtherFields(note) == [f \in DOMAIN note \ {"hit", "missed"} |-> note[f]]

\* what reading note[f] gives
FlagValue(note, f) ==
    IF f \notin DOMAIN note THEN "undefined"
    ELSE IF note[f] = TRUE THEN "true" ELSE "false"

FlagsOf(note) == <<FlagValue(note, "hit"), FlagValue(note, "missed")>>

\* the step is the continuation of an analysis: setCurrentChart runs
ChartReplaced == \E p \in pending : p \notin pending'

\* C11: the chart of the application is empty or the complete output of one
\* analysis pass, its notes in their order; the continuation of an analysis
\* puts the chart of that analysis in the place of the previous one, never
\* notes of two passes together, and at that change the GameScene has an
\* empty active-note list and next-note index 0.
C11_OnePassChart ==
    /\ [](\/ currentChart = <<>>
          \/ \E r \in DOMAIN settled :
                [k \in DOMAIN currentChart |-> Generated(currentChart[k])]
                    = settled[r].value)
    /\ [][\A p \in pending :
            p \notin pending' =>
                /\ currentChart' = settled'[p.req].value
                /\ activeNotes' = <<>>
                /\ nextNoteIndex' = 0]_vars

\* a chart arrived while the game was being played on the previous one:
\* the status is IDLE with the song still running, the new notes untouched
C11_Witness ==
    /\ gameStatus = "IDLE"
    /\ ~audioRef.paused
    /\ audioRef.currentTime > 0
    /\ score > 0
    /\ Len(currentChart) >= 2
    /\ \A k \in DOMAIN currentChart : FlagsOf(currentChart[k])
                                         = <<"undefined", "undefined">>
    /\ activeNotes = <<>>
    /\ nextNoteIndex = 0

\* C13 as stated: while a chart is the chart of the application, hit and
\* missed of its notes are written by the frame loop of GameScene only,
\* which runs while the status is PLAYING, and nothing writes another field
\* of a note or adds or removes a note.
C13_OnlyCollisionWrites ==
    [][~ChartReplaced =>
          /\ Len(currentChart') = Len(currentChart)
          /\ \A k \in DOMAIN currentChart :
                /\ OtherFields(currentChart'[k]) = OtherFields(currentChart[k])
                /\ FlagsOf(currentChart'[k]) # FlagsOf(currentChart[k]) =>
                      gameStatus = "PLAYING"]_vars

\* C13: while a chart is the chart of the application, no note is added or
\* removed and the six generated properties of its notes never change;
\* hit and missed are written by the frame loop of GameScene, which sets
\* one of them to true, and by startGame, which sets both to false on
\* every note; hitTime is written by the frame loop, together with hit.
C13_FlagWriters ==
    [][~ChartReplaced =>
          /\ Len(currentChart') = Len(currentChart)
          /\ \A k \in DOMAIN currentChart :
                /\ Generated(currentChart'[k]) = Generated(currentChart[k])
                /\ DOMAIN currentChart'[k] \subseteq
                      DOMAIN Generated(currentChart[k])
                          \cup {"hit", "missed", "hitTime"}
                /\ FlagsOf(currentChart'[k]) # FlagsOf(currentChart[k]) =>
                      \/ /\ gameStatus = "PLAYING"
                         /\ "true" \in {FlagValue(currentChart'[k], "hit"),
                                       FlagValue(currentChart'[k], "missed")}
                      \/ /\ gameStatus = "IDLE"
                         /\ \A j \in DOMAIN currentChart :
                               FlagsOf(currentChart'[j]) = <<"false", "false">>
                /\ OtherFields(currentChart'[k]) # OtherFields(currentChart[k])
                      => /\ gameStatus = "PLAYING"
                         /\ FlagValue(currentChart'[k], "hit") = "true"
                         /\ currentChart'[k].hitTime = currentTime']_vars

\* a second play: one note was hit in the first one, and its flags are
\* false again while its hitTime is still there; another one is now missed
C13_Witness ==
    /\ gameStatus = "PLAYING"
    /\ \E k \in DOMAIN currentChart :
          /\ "hitTime" \in DOMAIN currentChart[k]
          /\ FlagsOf(currentChart[k]) = <<"false", "false">>
    /\ \E k \in DOMAIN currentChart :
          FlagsOf(currentChart[k]) = <<"false", "true">>

\* note.hit || note.missed
Resolved(note) == Flag(note, "hit") \/ Flag(note, "missed")

\* the playback clock is past the point where the note at this time is
\* beyond MISS_Z: (currentTime - note.time) * NOTE_SPEED > MISS_Z
PastMissPoint(note) ==
    PLAYER_Z - (note.time - audioRef.currentTime) * NOTE_SPEED > MISS_Z

\* C24: in a PLAYING session whose playback clock has advanced past every
\* note of the chart, every note of the chart is hit or missed; in every
\* play of the chart, also one started after a game over or a victory
\* without a new upload.
C24_EveryNoteResolved ==
    (/\ gameStatus = "PLAYING"
     /\ currentChart # <<>>
     /\ \A k \in DOMAIN currentChart : PastMissPoint(currentChart[k]))
        => \A k \in DOMAIN currentChart : Resolved(currentChart[k])

\* the notes whose flag f becomes true in the step
NewlySet(f) ==
    {k \in DOMAIN currentChart :
        /\ FlagValue(currentChart[k], f) # "true"
        /\ FlagValue(currentChart'[k], f) = "true"}

\* how many of n successive misses find the health at or below 15
MissesAtZero(h, n) == Cardinality({j \in 1..n : h - 15 * j <= 0})

\* C25: no note has hit = true and missed = true together; a note that is
\* hit or missed is not touched again before startGame resets the flags for
\* the next play; and a frame calls onNoteHit once for every note it marks
\* hit and onNoteMiss once for every note it marks missed, and for no other
\* note: the score grows by 150 * multiplier per note marked hit, and the
\* health falls by 15 per note marked missed.
C25_ResolvedOnce ==
    /\ [](\A k \in DOMAIN currentChart :
            FlagsOf(currentChart[k]) # <<"true", "true">>)
    /\ [][(~ChartReplaced /\ gameStatus # "IDLE") =>
            \A k \in DOMAIN currentChart :
                "true" \in {FlagValue(currentChart[k], "hit"),
                            FlagValue(currentChart[k], "missed")}
                    => currentChart'[k] = currentChart[k]]_vars
    /\ [][(~ChartReplaced /\ gameStatus = "PLAYING") =>
            /\ NewlySet("hit") \cap NewlySet("missed") = {}
            /\ score' = score + 150 * multiplier * Cardinality(NewlySet("hit"))
            /\ NewlySet("hit") = {} =>
                  LET n == Cardinality(NewlySet("missed"))
                  IN  /\ health' = IF health - 15 * n <= 0 THEN 0
                                   ELSE health - 15 * n
                      /\ gameStatus' = "PLAYING" =>
                            endGameTimers' =
                                endGameTimers + MissesAtZero(health, n)
            /\ NewlySet("missed") = {} =>
                  LET n == Cardinality(NewlySet("hit"))
                  IN  /\ health' = IF health + 2 * n < 100
                                   THEN health + 2 * n ELSE 100
                      /\ combo' = combo + n]_vars

\* a play in which one note was hit and the other one missed, both
\* counted once, and later frames found nothing left to process
C25_Witness ==
    /\ gameStatus = "PLAYING"
    /\ activeNotes = <<>>
    /\ nextNoteIndex = Len(currentChart)
    /\ score = 150
    /\ health = 85
    /\ Cardinality({k \in DOMAIN currentChart :
                      FlagsOf(currentChart[k]) = <<"true", "false">>}) = 1
    /\ Cardinality({k \in DOMAIN currentChart :
                      FlagsOf(currentChart[k]) = <<"false", "true">>}) = 1

C30_FinishedIsFinal ==
    /\ [][(gameStatus \in {"VICTORY", "GAME_OVER"}
            /\ gameStatus' # gameStatus
            /\ ~ChartReplaced) =>
              \/ gameStatus' = "IDLE" /\ score' = 0
              \/ gameStatus' = "LOADING" /\ songUrl' # songUrl]_vars
    /\ [][(~ChartReplaced
            /\ NewlySet("hit") \cup NewlySet("missed") # {}) =>
              gameStatus = "PLAYING"]_vars

============================================================================
